---- MODULE Spec2Model ----
(***************************************************************************)
(* Model of compare.py: the evaluation driver (evaluate), the per-document *)
(* fan-out/join and scoring (process_one_doc), the normaliser of the error *)
(* rate (get_max_weighted_errors) and the thread wrapper Thr.               *)
(***************************************************************************)
EXTENDS Integers, Sequences, FiniteSets, TLC

\* ------------------------------------------------------------------ bounds
MaxDocs == 2
MaxLines == 2
MaxLineLen == 3

\* ------------------------------------------------------- python values
\* A Python value as the code sees it: None, a str, or a tuple whose first
\* element's truthiness is `first` (the adapters' failure value).
PyNone == [type |-> "NoneType", s |-> "", first |-> FALSE]
PyStr(x) == [type |-> "str", s |-> x, first |-> FALSE]
PyFailure == [type |-> "tuple", s |-> "reason", first |-> FALSE]

\* The labels of the gold standard: '+', '-', '0'.
GoldLabels == {"+", "-", "0"}

\* What an adapter call can give back: a label of the common vocabulary
\* (positive, negative, neutral) or a failure tuple; an adapter reports an
\* answer it does not recognize as a failure.
AdapterOutcomes == {PyStr("+"), PyStr("-"), PyStr("0"), PyFailure}

\* ------------------------------------------------------- the registry
\* The names left enabled in ANALYZERS_TO_USE: the run modelled here has two
\* of the eight adapters of the source switched on.
ANALYZERS_TO_USE == <<"skyttle", "chatterbox">>

\* ANALYZERS after initialize_analysers: one adapter per enabled name, in the
\* order of the if-blocks; an adapter is known by its name.
ANALYZERS == ANALYZERS_TO_USE

NumAnalyzers == Len(ANALYZERS)

AnalyzerIds == 1..NumAnalyzers
Names == {ANALYZERS[i] : i \in AnalyzerIds}

\* The text of the document on line d of the corpus.
CorpusTexts == <<"great product", "terrible", "it's ok", "fine", "meh">>

\* ------------------------------------------------------- dict / Counter
\* A dict: a function from the keys present to their values.
EmptyDict == [k \in {} |-> PyNone]

\* d[key] = val
DictSet(d, key, val) ==
    [k \in (DOMAIN d) \cup {key} |-> IF k = key THEN val ELSE d[k]]

\* collections.Counter: a function from the keys present to their counts.
EmptyCounter == [k \in {} |-> 0]

CounterGet(c, key, default) == IF key \in DOMAIN c THEN c[key] ELSE default

\* c[key] += n
CounterInc(c, key, n) ==
    [k \in (DOMAIN c) \cup {key} |-> IF k = key THEN CounterGet(c, key, 0) + n ELSE c[k]]

CounterAdd_Overwrite(a, b) == b
\* Counter.__add__ (used by +=): sums, keeping only positive counts.
CounterAdd(a, b) ==
    LET sum(k) == CounterGet(a, k, 0) + CounterGet(b, k, 0)
    IN [k \in {x \in (DOMAIN a) \cup (DOMAIN b) : sum(x) > 0} |-> sum(k)]

\* bool(counter)
CounterTruthy(c) == DOMAIN c # {}

\* csv.writer's rendering of one cell: None is written as the empty string.
CsvCell(v) ==
    IF v.type = "NoneType" THEN ""
    ELSE IF v.type = "str" THEN v.s
    ELSE "(False, reason)"

\* ------------------------------------------------------- pure functions
RECURSIVE SortedSeq(_)
\* sorted(...) of a set of integers, ascending.
SortedSeq(S) ==
    IF S = {} THEN <<>>
    ELSE LET m == CHOOSE x \in S : \A y \in S : x <= y
         IN <<m>> \o SortedSeq(S \ {m})

SortedDocIds_SkipFirst(d2t) ==
    IF DOMAIN d2t = {} THEN <<>> ELSE Tail(SortedSeq(DOMAIN d2t))
\* sorted(doc_id2text.items()): the document ids in the order evaluate visits them.
SortedDocIds(d2t) == SortedSeq(DOMAIN d2t)

\* doc_id2key.get(doc_id)
KeyOf(d2k, doc_id) == IF doc_id \in DOMAIN d2k THEN PyStr(d2k[doc_id]) ELSE PyNone

IsFailure_NoNot(output) == output.type = "tuple" /\ output.first
\* isinstance(output, tuple) and not output[0]
IsFailure(output) == output.type = "tuple" /\ ~output.first

\* The output as scored and recorded: a failure becomes the str 'Error'.
Normalise(output) == IF IsFailure(output) THEN PyStr("Error") ELSE output

MissWeight_And(key, output) ==
    IF key = PyStr("0") /\ output = PyStr("0") THEN 1 ELSE 2
\* The weight of a miss.
MissWeight(key, output) ==
    IF key = PyStr("0") \/ output = PyStr("0") THEN 1 ELSE 2

ScoreOne_NoElif(acc, name, output, key) ==
    LET out == Normalise(output)
    IN [hits   |-> IF out = key THEN CounterInc(acc.hits, name, 1) ELSE acc.hits,
        errors |-> IF out # PyStr("Error")
                   THEN CounterInc(acc.errors, name, MissWeight(key, out))
                   ELSE acc.errors,
        results |-> DictSet(acc.results, name, out)]
ScoreOne_StickyError(acc, name, output, key) ==
    LET out == IF \E n \in DOMAIN acc.results : acc.results[n] = PyStr("Error")
               THEN PyStr("Error") ELSE Normalise(output)
    IN [hits   |-> IF out = key THEN CounterInc(acc.hits, name, 1) ELSE acc.hits,
        errors |-> IF out = key THEN acc.errors
                   ELSE IF out # PyStr("Error")
                        THEN CounterInc(acc.errors, name, MissWeight(key, out))
                        ELSE acc.errors,
        results |-> DictSet(acc.results, name, out)]
\* One turn of the scoring loop, on the entry (name, output) of Thr.outputs.
ScoreOne(acc, name, output, key) ==
    LET out == Normalise(output)
    IN [hits   |-> IF out = key THEN CounterInc(acc.hits, name, 1) ELSE acc.hits,
        errors |-> IF out = key THEN acc.errors
                   ELSE IF out # PyStr("Error")
                        THEN CounterInc(acc.errors, name, MissWeight(key, out))
                        ELSE acc.errors,
        results |-> DictSet(acc.results, name, out)]

RECURSIVE ScoreLoop(_, _, _, _)
\* for name, output in Thr.outputs.items(): ... over the items still to visit.
ScoreLoop(acc, outputs, todo, key) ==
    IF todo = {} THEN acc
    ELSE LET name == CHOOSE n \in todo : TRUE
         IN ScoreLoop(ScoreOne(acc, name, outputs[name], key),
                      outputs, todo \ {name}, key)

\* The scoring loop of process_one_doc over the whole of Thr.outputs.
ScoreOutputs(outputs, key) ==
    ScoreLoop([hits |-> EmptyCounter, errors |-> EmptyCounter, results |-> EmptyDict],
              outputs, DOMAIN outputs, key)

ResultList_DictOrder(results) ==
    [i \in AnalyzerIds |-> results[ANALYZERS[NumAnalyzers + 1 - i]]]
\* [results[x.name] for x in ANALYZERS]
ResultList(results) == [i \in AnalyzerIds |-> results[ANALYZERS[i]]]

\* The list comprehension raises KeyError when an adapter left no entry.
ResultListRaises(results) == \E i \in AnalyzerIds : ANALYZERS[i] \notin DOMAIN results

RECURSIVE SumMaxErrors(_, _)
SumMaxErrors(d2k, ids) ==
    IF ids = {} THEN 0
    ELSE LET d == CHOOSE x \in ids : TRUE
         IN (IF d2k[d] = "0" THEN 1 ELSE 2) + SumMaxErrors(d2k, ids \ {d})

\* The maximum possible sum of weighted errors.
GetMaxWeightedErrors(d2k) == SumMaxErrors(d2k, DOMAIN d2k)

\* The row handed to csv.writer: [doc_id, text, key] + results.
OutputRow(doc_id, txt, k, res) ==
    [doc_id |-> doc_id, text |-> txt, gold |-> CsvCell(k),
     cells |-> [i \in 1..Len(res) |-> CsvCell(res[i])]]

\* The config keys each adapter's constructor is given by initialize_analysers.
ConfigKeysOf(name) ==
    CASE name = "skyttle"    -> {"mashape_auth", "language"}
      [] name = "chatterbox" -> {"mashape_auth", "language"}
      [] name = "datumbox"   -> {"datumbox_key"}
      [] name = "repustate"  -> {"repustate_key"}
      [] name = "bitext"     -> {"bitext_user", "bitext_pwd", "language"}
      [] name = "alchemy"    -> {"alchemy_key"}
      [] name = "semantria"  -> {"semantria_consumer_key", "semantria_consumer_secret"}
      [] name = "viralheat"  -> {"viralheat_key"}

\* The keys the enabled adapters need.
RequiredKeys == UNION {ConfigKeysOf(ANALYZERS_TO_USE[i]) : i \in 1..Len(ANALYZERS_TO_USE)}

ConfigLookupRaises_Get(cfg, name) == FALSE
\* config[key] raises KeyError when the key is not in config.txt.
ConfigLookupRaises(cfg, name) == \E k \in ConfigKeysOf(name) : k \notin cfg

ThreadAnalyser_First(k) == 1
\* thr = Thr(analyser, [text]): the k-th thread is given the k-th analyser.
ThreadAnalyser(k) == k

ResetOutputs_Keep(old) == old
\* Thr.outputs = {} at the top of process_one_doc.
ResetOutputs(old) == EmptyDict

JoinDone_FirstOnly(nJoined) == nJoined >= 1
\* The join loop is over once thr.join() has returned for every thread.
JoinDone(nJoined) == nJoined = NumAnalyzers

\* ------------------------------------------------------- the corpus file
\* The characters of a line of the corpus file: a letter, a blank, a tab.
\* A line is the sequence of its characters, without its line terminator
\* (white space at the end of the line, which every strip() below removes).
Alphabet == {"a", " ", "\t"}

RECURSIVE SeqsUpTo(_)
SeqsUpTo(n) ==
    IF n = 0 THEN {<<>>}
    ELSE LET shorter == SeqsUpTo(n - 1)
         IN shorter \cup {Append(l, c) : l \in shorter, c \in Alphabet}

FileLines == SeqsUpTo(MaxLineLen)

\* The characters str.strip() removes.
IsSpace(c) == c \in {" ", "\t"}

RECURSIVE LStrip(_)
LStrip(l) == IF l # <<>> /\ IsSpace(Head(l)) THEN LStrip(Tail(l)) ELSE l

RECURSIVE RStrip(_)
RStrip(l) ==
    IF l # <<>> /\ IsSpace(l[Len(l)]) THEN RStrip(SubSeq(l, 1, Len(l) - 1)) ELSE l

\* line.strip()
Strip(l) == RStrip(LStrip(l))

SplitTab_MaxSplit1(l) ==
    IF \A k \in 1..Len(l) : l[k] # "\t" THEN <<l>>
    ELSE LET i == CHOOSE k \in 1..Len(l) : l[k] = "\t" /\ \A j \in 1..(k - 1) : l[j] # "\t"
         IN <<SubSeq(l, 1, i - 1), SubSeq(l, i + 1, Len(l))>>
RECURSIVE SplitTab(_)
\* line.split('\t'): the parts of the line between its tabs.
SplitTab(l) ==
    IF \A k \in 1..Len(l) : l[k] # "\t" THEN <<l>>
    ELSE LET i == CHOOSE k \in 1..Len(l) : l[k] = "\t" /\ \A j \in 1..(k - 1) : l[j] # "\t"
         IN <<SubSeq(l, 1, i - 1)>> \o SplitTab(SubSeq(l, i + 1, Len(l)))

\* document, key = ... raises ValueError unless the split gave two parts.
UnpackRaises(parts) == Len(parts) # 2

\* ------------------------------------------------------- state
VARIABLES
    config,        \* read_config: the keys found in config.txt
    doc_id2text,   \* read_evaluation_data: document id -> text
    doc_id2key,    \* read_evaluation_data: document id -> gold label (labeled ones)
    pc,            \* where the driver is
    doc_pos,       \* position of evaluate's loop in the sorted documents
    text, key,     \* the arguments of the running process_one_doc
    started,       \* len(threads): threads created and started
    joined,        \* threads the join loop has passed
    thr_state,     \* each thread: "new", "started", "finished"
    Thr_outputs,   \* Thr.outputs, the map shared by the threads
    calls,         \* what each adapter call of the run gave back, by (doc_id, name)
    invocations,   \* the texts each adapter was called on, by (doc_id, name)
    doc_hits, doc_errors, result_list,   \* what process_one_doc returned
    total_hits, total_errors,            \* evaluate's counters
    rows,          \* the rows written to results.csv after the header
    accuracy, error_rate,                \* evaluate's return value
    error,         \* the exception that ended the run, "" when none
    rd_lines,      \* read_evaluation_data: the lines read from the file so far
    rd_doc_id,     \* read_evaluation_data: doc_id
    rd_doc_id2doc, \* read_evaluation_data: doc_id2doc
    rd_doc_id2key  \* read_evaluation_data: doc_id2key

vars == <<config, doc_id2text, doc_id2key, pc, doc_pos, text, key, started, joined,
          thr_state, Thr_outputs, calls, invocations, doc_hits, doc_errors,
          result_list, total_hits, total_errors, rows, accuracy, error_rate, error,
          rd_lines, rd_doc_id, rd_doc_id2doc, rd_doc_id2key>>

corpus == <<doc_id2text, doc_id2key>>
threadv == <<started, joined, thr_state, Thr_outputs, calls, invocations>>
readv == <<rd_lines, rd_doc_id, rd_doc_id2doc, rd_doc_id2key>>
docv == <<doc_hits, doc_errors, result_list>>
totals == <<total_hits, total_errors>>
summary == <<accuracy, error_rate, error>>

CurDoc == SortedDocIds(doc_id2text)[doc_pos]

NumDocs_LabeledOnly(d2t) == Cardinality({d \in DOMAIN d2t : d \in DOMAIN doc_id2key})
\* num_docs = float(len(doc_id2text))
NumDocs(d2t) == Cardinality(DOMAIN d2t)

DivisionRaises_DocsOnly(num_docs, max_errors) == num_docs = 0
\* x/num_docs and x/max_errors are float divisions: a zero divisor raises
\* ZeroDivisionError.
DivisionRaises(num_docs, max_errors) == num_docs = 0 \/ max_errors = 0

\* read_evaluation_data before its first line.
ReadInit ==
    /\ rd_lines = <<>>
    /\ rd_doc_id = 0
    /\ rd_doc_id2doc = [d \in {} |-> <<>>]
    /\ rd_doc_id2key = [d \in {} |-> <<>>]

\* main after read_evaluation_data and read_config: a corpus of n documents
\* with ids 0..n-1, any subset of them labeled, and a config.txt holding any
\* of the keys the enabled adapters ask for.
Init ==
    /\ ReadInit
    /\ config \in SUBSET RequiredKeys
    /\ \E n \in 0..MaxDocs :
         /\ doc_id2text = [d \in 0..(n-1) |-> CorpusTexts[d + 1]]
         /\ \E labeled \in SUBSET (0..(n-1)) : doc_id2key \in [labeled -> GoldLabels]
    /\ pc = "init"
    /\ doc_pos = 1
    /\ text = "" /\ key = PyNone
    /\ started = 0 /\ joined = 0
    /\ thr_state = [i \in AnalyzerIds |-> "new"]
    /\ Thr_outputs = EmptyDict
    /\ calls = EmptyDict
    /\ invocations = EmptyDict
    /\ doc_hits = EmptyCounter /\ doc_errors = EmptyCounter
    /\ result_list = <<>>
    /\ total_hits = EmptyCounter /\ total_errors = EmptyCounter
    /\ rows = <<>>
    /\ accuracy = EmptyCounter /\ error_rate = EmptyCounter
    /\ error = ""

\* ------------------------------------------------------- actions
\* initialize_analysers builds the enabled adapters from the config; a key
\* that is missing raises KeyError out of main, before evaluate is called.
InitializeAnalysers ==
    /\ pc = "init"
    /\ IF \E i \in 1..Len(ANALYZERS_TO_USE) : ConfigLookupRaises(config, ANALYZERS_TO_USE[i])
       THEN /\ pc' = "failed"
            /\ error' = "KeyError in initialize_analysers"
       ELSE /\ pc' = "next_doc"
            /\ UNCHANGED error
    /\ UNCHANGED <<config, readv, corpus, doc_pos, text, key, threadv, docv, totals,
                   rows, accuracy, error_rate>>

\* evaluate's loop takes the next document and process_one_doc resets
\* Thr.outputs and its local counters.
BeginDoc ==
    /\ pc = "next_doc"
    /\ doc_pos <= Len(SortedDocIds(doc_id2text))
    /\ text' = doc_id2text[CurDoc]
    /\ key' = KeyOf(doc_id2key, CurDoc)
    /\ Thr_outputs' = ResetOutputs(Thr_outputs)
    /\ started' = 0 /\ joined' = 0
    /\ thr_state' = [i \in AnalyzerIds |-> "new"]
    /\ pc' = "start"
    /\ UNCHANGED <<config, readv, corpus, doc_pos, calls, invocations, docv, totals,
                   rows, summary>>

\* thr = Thr(analyser, [text]); threads.append(thr); thr.start()
StartThread ==
    /\ pc = "start"
    /\ started < NumAnalyzers
    /\ started' = started + 1
    /\ thr_state' = [thr_state EXCEPT ![started + 1] = "started"]
    /\ pc' = IF started + 1 = NumAnalyzers THEN "join" ELSE "start"
    /\ UNCHANGED <<config, readv, corpus, doc_pos, text, key, joined, Thr_outputs, calls,
                   invocations, docv, totals, rows, summary>>

\* Thr.run: the adapter is called on the text and its outcome, a label or a
\* failure, is stored under the adapter's name.
ThrRun(i) ==
    /\ thr_state[i] = "started"
    /\ \E out \in AdapterOutcomes :
         LET name == ANALYZERS[ThreadAnalyser(i)]
             call == <<CurDoc, name>>
         IN /\ Thr_outputs' = DictSet(Thr_outputs, name, out)
            /\ calls' = DictSet(calls, call, out)
            /\ invocations' = DictSet(invocations, call,
                    Append(IF call \in DOMAIN invocations
                           THEN invocations[call] ELSE <<>>, text))
    /\ thr_state' = [thr_state EXCEPT ![i] = "finished"]
    /\ UNCHANGED <<config, readv, corpus, pc, doc_pos, text, key, started, joined,
                   docv, totals, rows, summary>>

\* thr.join() returns for the next thread of the list once it has finished.
JoinThread ==
    /\ pc = "join"
    /\ ~JoinDone(joined)
    /\ thr_state[joined + 1] = "finished"
    /\ joined' = joined + 1
    /\ pc' = IF JoinDone(joined + 1) THEN "score" ELSE "join"
    /\ UNCHANGED <<config, readv, corpus, doc_pos, text, key, started, thr_state, Thr_outputs,
                   calls, invocations, docv, totals, rows, summary>>

\* The scoring loop over Thr.outputs and the result list; process_one_doc
\* returns, or the result list raises KeyError.
ScoreDoc ==
    /\ pc = "score"
    /\ LET sc == ScoreOutputs(Thr_outputs, key)
       IN IF ResultListRaises(sc.results)
          THEN /\ pc' = "failed"
               /\ error' = "KeyError"
               /\ UNCHANGED <<docv, accuracy, error_rate>>
          ELSE /\ doc_hits' = sc.hits
               /\ doc_errors' = sc.errors
               /\ result_list' = ResultList(sc.results)
               /\ pc' = "record"
               /\ UNCHANGED summary
    /\ UNCHANGED <<config, readv, corpus, doc_pos, text, key, threadv, totals, rows>>

\* evaluate adds the document's counters to the totals and writes the row.
RecordDoc ==
    /\ pc = "record"
    /\ total_hits' = IF CounterTruthy(doc_hits)
                     THEN CounterAdd(total_hits, doc_hits) ELSE total_hits
    /\ total_errors' = IF CounterTruthy(doc_errors)
                       THEN CounterAdd(total_errors, doc_errors) ELSE total_errors
    /\ rows' = Append(rows, OutputRow(CurDoc, text, key, result_list))
    /\ doc_pos' = doc_pos + 1
    /\ pc' = "next_doc"
    /\ UNCHANGED <<config, readv, corpus, text, key, threadv, docv, summary>>

\* After the loop: accuracy and error rate of every analyzer, as the
\* fractions <<numerator, denominator>>; a zero denominator raises.
Finalize ==
    /\ pc = "next_doc"
    /\ doc_pos > Len(SortedDocIds(doc_id2text))
    /\ LET num_docs == NumDocs(doc_id2text)
           max_errors == GetMaxWeightedErrors(doc_id2key)
       IN IF DivisionRaises(num_docs, max_errors)
          THEN /\ pc' = "failed"
               /\ error' = "ZeroDivisionError"
               /\ UNCHANGED <<accuracy, error_rate>>
          ELSE /\ accuracy' = [n \in Names |-> <<CounterGet(total_hits, n, 0), num_docs>>]
               /\ error_rate' = [n \in Names |-> <<CounterGet(total_errors, n, 0), max_errors>>]
               /\ pc' = "done"
               /\ UNCHANGED error
    /\ UNCHANGED <<config, readv, corpus, doc_pos, text, key, threadv, docv, totals, rows>>

Next ==
    \/ InitializeAnalysers
    \/ BeginDoc
    \/ StartThread
    \/ \E i \in AnalyzerIds : ThrRun(i)
    \/ JoinThread
    \/ ScoreDoc
    \/ RecordDoc
    \/ Finalize

Spec == Init /\ [][Next]_vars

\* read_evaluation_data, on its own: the file is read line by line, and the
\* rest of the program has not started.
ReadSpecInit ==
    /\ ReadInit
    /\ config = {}
    /\ doc_id2text = [d \in {} |-> ""] /\ doc_id2key = [d \in {} |-> ""]
    /\ pc = "read"
    /\ doc_pos = 1
    /\ text = "" /\ key = PyNone
    /\ started = 0 /\ joined = 0
    /\ thr_state = [i \in AnalyzerIds |-> "new"]
    /\ Thr_outputs = EmptyDict
    /\ calls = EmptyDict
    /\ invocations = EmptyDict
    /\ doc_hits = EmptyCounter /\ doc_errors = EmptyCounter
    /\ result_list = <<>>
    /\ total_hits = EmptyCounter /\ total_errors = EmptyCounter
    /\ rows = <<>>
    /\ accuracy = EmptyCounter /\ error_rate = EmptyCounter
    /\ error = ""

\* One turn of the loop of read_evaluation_data, on the next line of the file.
ReadLine ==
    /\ pc = "read"
    /\ Len(rd_lines) < MaxLines
    /\ \E line \in FileLines :
         /\ rd_lines' = Append(rd_lines, line)
         /\ IF Strip(line) = <<>>
            THEN UNCHANGED <<rd_doc_id, rd_doc_id2doc, rd_doc_id2key>>
            ELSE LET parts == SplitTab(line)
                     document == IF UnpackRaises(parts) THEN line ELSE parts[1]
                 IN /\ rd_doc_id2key' =
                          IF UnpackRaises(parts) THEN rd_doc_id2key
                          ELSE DictSet(rd_doc_id2key, rd_doc_id, Strip(parts[2]))
                    /\ rd_doc_id2doc' = DictSet(rd_doc_id2doc, rd_doc_id, Strip(document))
                    /\ rd_doc_id' = rd_doc_id + 1
    /\ UNCHANGED <<config, corpus, pc, doc_pos, text, key, threadv, docv, totals,
                   rows, summary>>

ReadSpec == ReadSpecInit /\ [][ReadLine]_vars

\* The steps of the main thread.
DriverStep ==
    \/ InitializeAnalysers
    \/ BeginDoc
    \/ StartThread
    \/ JoinThread
    \/ ScoreDoc
    \/ RecordDoc
    \/ Finalize

\* The main thread keeps running, and every started adapter call returns.
FairSpec ==
    /\ Spec
    /\ WF_vars(DriverStep)
    /\ \A i \in AnalyzerIds : WF_vars(ThrRun(i))

\* ------------------------------------------------------- properties
\* What the call of adapter i on document d gave back.
Returned(d, i) == calls[<<d, ANALYZERS[i]>>]

\* The adapter call gave back a failure.
Failed(outcome) == outcome = PyFailure

\* The driver is about to fold the scores of the current document into the
\* totals and to write its row.
Recording == pc = "record"

HitsOf(c, i) == CounterGet(c, ANALYZERS[i], 0)

LastRow(rs) == rs[Len(rs)]

\* C1: processing a document that has no gold label changes neither the hits
\* nor the weighted errors of any adapter, and still emits a row for the
\* document whose gold-standard cell is empty.
C1_NoScoreWithoutGold ==
    [][(Recording /\ key = PyNone) =>
          /\ total_hits' = total_hits
          /\ total_errors' = total_errors
          /\ Len(rows') = Len(rows) + 1
          /\ LastRow(rows').doc_id = CurDoc
          /\ LastRow(rows').gold = ""]_vars

\* C2: when the run finalizes on a non-degenerate input, accuracy and error
\* rate of every registered adapter lie in [0,1]: hits <= document_count and
\* weighted_errors <= max_weighted_errors.
C2_RatesInUnitInterval ==
    pc = "done" =>
        \A n \in Names :
            /\ 0 <= accuracy[n][1] /\ accuracy[n][1] <= accuracy[n][2]
            /\ 0 <= error_rate[n][1] /\ error_rate[n][1] <= error_rate[n][2]

\* C3: once the dispatch of a document is past its join, every adapter's call
\* has finished and the outcome map holds exactly one entry per registered
\* adapter, keyed by its name, whatever the adapters returned.
C3_JoinThenOneEntryEach ==
    pc \in {"score", "record"} =>
        /\ \A i \in AnalyzerIds : thr_state[i] = "finished"
        /\ DOMAIN Thr_outputs = Names
        /\ \A i \in AnalyzerIds : Thr_outputs[ANALYZERS[i]] = Returned(CurDoc, i)

C3_Witness ==
    /\ pc = "score"
    /\ Failed(Thr_outputs[ANALYZERS[1]])
    /\ Thr_outputs[ANALYZERS[2]] = PyStr("+")

\* C4: a failing adapter leaves the others alone: after the dispatch of a
\* document every adapter that returned a label is recorded with exactly
\* that label, every adapter that failed is recorded as Error, and the run
\* has not been aborted by the failure.
C4_FailureIsolated ==
    /\ error # "KeyError"
    /\ Recording =>
         /\ Len(result_list) = NumAnalyzers
         /\ \A i \in AnalyzerIds :
              result_list[i] = IF Failed(Returned(CurDoc, i))
                               THEN PyStr("Error") ELSE Returned(CurDoc, i)

C4_Witness ==
    /\ Recording
    /\ Failed(Returned(CurDoc, 1))
    /\ Returned(CurDoc, 2) = PyStr("-")
    /\ result_list[2] = PyStr("-")

\* C5: a (document, adapter) pair whose outcome is a failure adds nothing to
\* the adapter's hits and weighted errors, whatever the gold label, and the
\* adapter's cell in the row is the literal Error; an adapter that failed on
\* every document ends the run with accuracy 0 and error rate 0.
C5_FailureScoresNothing ==
    [][/\ Recording =>
            \A i \in AnalyzerIds :
                Failed(Returned(CurDoc, i)) =>
                    /\ HitsOf(total_hits', i) = HitsOf(total_hits, i)
                    /\ HitsOf(total_errors', i) = HitsOf(total_errors, i)
                    /\ LastRow(rows').doc_id = CurDoc
                    /\ LastRow(rows').cells[i] = "Error"
       /\ pc' = "done" =>
            \A i \in AnalyzerIds :
                (\A d \in DOMAIN doc_id2text : Failed(Returned(d, i))) =>
                    /\ accuracy'[ANALYZERS[i]][1] = 0
                    /\ error_rate'[ANALYZERS[i]][1] = 0]_vars

C5_Witness ==
    /\ pc = "done"
    /\ Len(rows) = 2
    /\ \A d \in DOMAIN doc_id2text : Failed(Returned(d, 1))
    /\ DOMAIN doc_id2key = {0}
    /\ total_hits # EmptyCounter

\* The rows written so far are all misses of adapter i with no neutral label
\* on either side.
AllPolarMisses(rs, i) ==
    \A j \in 1..Len(rs) :
        /\ rs[j].gold \in {"+", "-"}
        /\ rs[j].cells[i] \notin {rs[j].gold, "0", "Error"}

\* C6: on a labeled document, a label that differs from the gold label adds
\* 1 to the adapter's weighted errors when the gold label or the predicted
\* label is neutral and 2 otherwise, and leaves its hits alone; after k
\* documents that were all misses with no neutral involved the adapter's
\* weighted errors are 2k.
C6_MissWeight ==
    [][Recording =>
          \A i \in AnalyzerIds :
              /\ (key # PyNone /\ ~Failed(Returned(CurDoc, i))
                     /\ Returned(CurDoc, i) # key) =>
                    /\ HitsOf(total_errors', i) - HitsOf(total_errors, i) =
                          (IF key.s = "0" \/ Returned(CurDoc, i).s = "0" THEN 1 ELSE 2)
                    /\ HitsOf(total_hits', i) = HitsOf(total_hits, i)
              /\ AllPolarMisses(rows', i) =>
                    HitsOf(total_errors', i) = 2 * Len(rows')]_vars

C6_Witness ==
    /\ pc = "next_doc"
    /\ Len(rows) = 2
    /\ AllPolarMisses(rows, 1)
    /\ HitsOf(total_errors, 1) = 4
    /\ HitsOf(total_errors, 2) = 1

\* C7: on a document whose gold label the adapter returned, the adapter's
\* hits grow by exactly 1 and its weighted errors stay as they were.
C7_HitCountsOnce ==
    [][Recording =>
          \A i \in AnalyzerIds :
              Returned(CurDoc, i) = key =>
                  /\ HitsOf(total_hits', i) = HitsOf(total_hits, i) + 1
                  /\ HitsOf(total_errors', i) = HitsOf(total_errors, i)]_vars

C7_Witness ==
    /\ pc = "next_doc"
    /\ Len(rows) = 2
    /\ HitsOf(total_hits, 1) = 2
    /\ HitsOf(total_hits, 2) = 0

\* The run is at the end of evaluate's loop with a zero document count or a
\* zero maximum of weighted errors.
DegenerateAtFinalize ==
    /\ pc = "next_doc"
    /\ doc_pos > Len(SortedDocIds(doc_id2text))
    /\ (NumDocs(doc_id2text) = 0 \/ GetMaxWeightedErrors(doc_id2key) = 0)

C9_RowAndColumnOrder ==
    /\ \A j \in 1..(Len(rows) - 1) : rows[j].doc_id < rows[j + 1].doc_id
    /\ \A j \in 1..Len(rows) :
         /\ Len(rows[j].cells) = NumAnalyzers
         /\ \A i \in AnalyzerIds :
              rows[j].cells[i] = 
                  IF Failed(Returned(rows[j].doc_id, i)) THEN "Error"
                  ELSE Returned(rows[j].doc_id, i).s

C9_Witness ==
    /\ Len(rows) = 1
    /\ rows[1].cells[1] # rows[1].cells[2]
    /\ pc = "join"
    /\ thr_state[1] = "started"
    /\ thr_state[2] = "finished"

\* C10: at finalize the accuracy of every registered adapter is its hits
\* over the number of all documents of the run, the unlabeled ones and the
\* ones the adapter failed on included.
C10_AccuracyDenominator ==
    pc = "done" =>
        \A i \in AnalyzerIds :
            /\ accuracy[ANALYZERS[i]][1] = HitsOf(total_hits, i)
            /\ accuracy[ANALYZERS[i]][2] = Len(rows)
            /\ accuracy[ANALYZERS[i]][2] = Cardinality(DOMAIN doc_id2text)

C10_Witness ==
    /\ pc = "done"
    /\ DOMAIN doc_id2key = {0}
    /\ Len(rows) = 2
    /\ Failed(Returned(0, 2))
    /\ accuracy[ANALYZERS[1]] = <<1, 2>>
    /\ accuracy[ANALYZERS[2]] = <<0, 2>>

\* The weight the scoring policy gives adapter i on document d: nothing
\* without a gold label, on a failure or on a hit; on a miss 1 when the gold
\* label or the answer is neutral and 2 otherwise.
PolicyWeight(d, i) ==
    IF d \notin DOMAIN doc_id2key \/ Failed(Returned(d, i)) THEN 0
    ELSE IF Returned(d, i).s = doc_id2key[d] THEN 0
    ELSE IF doc_id2key[d] = "0" \/ Returned(d, i).s = "0" THEN 1 ELSE 2

RECURSIVE PolicyWeightSum(_, _)
PolicyWeightSum(ds, i) ==
    IF ds = {} THEN 0
    ELSE LET d == CHOOSE x \in ds : TRUE
         IN PolicyWeight(d, i) + PolicyWeightSum(ds \ {d}, i)

\* 1 for every neutral gold label and 2 for every other one.
PolicyMaxErrors ==
    Cardinality({d \in DOMAIN doc_id2key : doc_id2key[d] = "0"})
    + 2 * Cardinality({d \in DOMAIN doc_id2key : doc_id2key[d] # "0"})

\* C11: at finalize the error rate of every registered adapter is the sum of
\* its miss weights over the documents of the run, divided by the sum over
\* the labeled documents of 1 for a neutral gold label and 2 otherwise.
C11_ErrorRate ==
    pc = "done" =>
        \A i \in AnalyzerIds :
            /\ error_rate[ANALYZERS[i]][1] = PolicyWeightSum(DOMAIN doc_id2text, i)
            /\ error_rate[ANALYZERS[i]][2] = PolicyMaxErrors

\* The same on the runs whose documents all have a gold label.
C11_ErrorRateAllLabeled ==
    (pc = "done" /\ DOMAIN doc_id2key = DOMAIN doc_id2text) => C11_ErrorRate

\* Every document of the corpus has exactly one row, in the order of the ids.
EveryDocOnce ==
    /\ Len(rows) = Cardinality(DOMAIN doc_id2text)
    /\ \A j \in 1..Len(rows) : rows[j].doc_id = j - 1

\* The run went through finalize: evaluate returned or its summary step raised.
Finalized ==
    /\ pc \in {"done", "failed"}
    /\ error \in {"", "ZeroDivisionError"}
    /\ EveryDocOnce

\* C12: provided every adapter call returns, a run that has started its
\* loop over the documents reaches finalize with every document processed
\* exactly once, also when all adapters fail on a document.
C12_ReachesFinalize == (pc = "next_doc") ~> Finalized

C12_Witness ==
    /\ pc = "done"
    /\ Len(rows) = 2
    /\ \A i \in AnalyzerIds : rows[1].cells[i] = "Error"
    /\ rows[2].cells[1] = "+"

\* The config has every key the enabled adapters ask for.
ConfigComplete == RequiredKeys \subseteq config

\* Every adapter call of the run has returned.
CallsComplete ==
    \A d \in DOMAIN doc_id2text : \A n \in Names : <<d, n>> \in DOMAIN calls

\* What the adapters gave back on document d, by name.
OutputsOn(d) == [n \in {m \in Names : <<d, m>> \in DOMAIN calls} |-> calls[<<d, n>>]]

\* The scores of document d computed from the corpus and the adapters'
\* answers alone.
ScoresOn(d) == ScoreOutputs(OutputsOn(d), KeyOf(doc_id2key, d))

RECURSIVE TotalsUpTo(_)
\* The totals after the documents 0..k-1, computed one document after the other.
TotalsUpTo(k) ==
    IF k = 0 THEN [hits |-> EmptyCounter, errors |-> EmptyCounter]
    ELSE LET t == TotalsUpTo(k - 1)
             sc == ScoresOn(k - 1)
         IN [hits   |-> IF CounterTruthy(sc.hits) THEN CounterAdd(t.hits, sc.hits) ELSE t.hits,
             errors |-> IF CounterTruthy(sc.errors)
                        THEN CounterAdd(t.errors, sc.errors) ELSE t.errors]

ExpectedRows ==
    IF ~ConfigComplete THEN <<>>
    ELSE [j \in 1..Cardinality(DOMAIN doc_id2text) |->
            OutputRow(j - 1, doc_id2text[j - 1], KeyOf(doc_id2key, j - 1),
                      ResultList(ScoresOn(j - 1).results))]

ExpectedError ==
    IF ~ConfigComplete THEN "KeyError in initialize_analysers"
    ELSE IF DOMAIN doc_id2text = {} \/ DOMAIN doc_id2key = {} THEN "ZeroDivisionError"
    ELSE ""

ExpectedSummary ==
    IF ExpectedError # "" THEN <<EmptyCounter, EmptyCounter>>
    ELSE LET t == TotalsUpTo(Cardinality(DOMAIN doc_id2text))
         IN <<[n \in Names |-> <<CounterGet(t.hits, n, 0), NumDocs(doc_id2text)>>],
              [n \in Names |-> <<CounterGet(t.errors, n, 0),
                                GetMaxWeightedErrors(doc_id2key)>>]>>

\* C13: the rows and the summary of a finished run are a function of the
\* corpus, the config and what each adapter gave back on each document; two
\* runs that agree on these end with the same rows and the same summary,
\* however the adapter threads were scheduled.
C13_Deterministic ==
    (pc \in {"done", "failed"} /\ CallsComplete) =>
        /\ rows = ExpectedRows
        /\ error = ExpectedError
        /\ <<accuracy, error_rate>> = ExpectedSummary

C13_Witness ==
    /\ pc = "done"
    /\ Len(rows) = 2
    /\ rows[1].cells = <<"+", "Error">>
    /\ rows[2].cells = <<"0", "-">>
    /\ accuracy["skyttle"] = <<1, 2>>

\* C14: when the config lacks a key that an enabled adapter needs, the run
\* fails in initialize_analysers: no adapter is ever called on a document
\* and no row is written, so the missing key never appears as an Error cell.
C14_MissingKeyFailsAtStartup ==
    ~ConfigComplete =>
        /\ pc \in {"init", "failed"}
        /\ (pc = "failed" => error = "KeyError in initialize_analysers")
        /\ started = 0
        /\ \A i \in AnalyzerIds : thr_state[i] = "new"
        /\ calls = EmptyDict /\ invocations = EmptyDict
        /\ rows = <<>>

C14_Witness ==
    /\ pc = "failed"
    /\ config = {"language"}
    /\ Cardinality(DOMAIN doc_id2text) = 2
    /\ DOMAIN doc_id2key = {0, 1}

\* C15: while the driver scores a document and adds to the counters, every
\* adapter call of that document has returned and no adapter call is
\* running; an adapter call runs only inside the start/join section of its
\* document, after every call of the documents before it has returned.
C15_CountersAfterJoin ==
    /\ pc \in {"score", "record"} =>
          \A i \in AnalyzerIds :
              /\ thr_state[i] = "finished"
              /\ <<CurDoc, ANALYZERS[i]>> \in DOMAIN calls
    /\ \A i \in AnalyzerIds :
          thr_state[i] = "started" =>
              /\ pc \in {"start", "join"}
              /\ \A j \in 1..(doc_pos - 1) : \A n \in Names :
                    <<SortedDocIds(doc_id2text)[j], n>> \in DOMAIN calls

C15_Witness ==
    /\ pc = "record"
    /\ doc_pos = 2
    /\ DOMAIN doc_hits = {"skyttle"}
    /\ DOMAIN doc_errors = {"chatterbox"}

\* C16: no adapter is called twice on a document: every (document,
\* adapter) pair has at most one call, each pair of a written row has exactly
\* one, also when the call failed, and the failure is the row's Error cell.
C16_NoRetry ==
    /\ \A c \in DOMAIN invocations : Len(invocations[c]) = 1
    /\ \A j \in 1..Len(rows) : \A i \in AnalyzerIds :
          /\ <<rows[j].doc_id, ANALYZERS[i]>> \in DOMAIN invocations
          /\ Failed(Returned(rows[j].doc_id, i)) => rows[j].cells[i] = "Error"
    /\ pc = "done" =>
          Cardinality(DOMAIN invocations) = Cardinality(DOMAIN doc_id2text) * NumAnalyzers

C16_Witness ==
    /\ pc = "done"
    /\ Len(rows) = 2
    /\ Failed(Returned(0, 1))
    /\ rows[1].cells[1] = "Error"
    /\ Len(invocations[<<0, "skyttle">>]) = 1

\* C17: the keys of the counters are names of registered adapters, and the
\* counters of an adapter change only in the step that records a document,
\* on the strength of the outcome that adapter gave on that document.
C17_CountersOfRegisteredAdapters ==
    [][/\ (DOMAIN total_hits') \cup (DOMAIN total_errors') \subseteq Names
       /\ (DOMAIN doc_hits') \cup (DOMAIN doc_errors') \subseteq Names
       /\ \A i \in AnalyzerIds :
            (\/ HitsOf(total_hits', i) # HitsOf(total_hits, i)
             \/ HitsOf(total_errors', i) # HitsOf(total_errors, i)) =>
                /\ Recording
                /\ <<CurDoc, ANALYZERS[i]>> \in DOMAIN calls
                /\ ~Failed(Returned(CurDoc, i))
                /\ HitsOf(total_hits', i) >= HitsOf(total_hits, i)
                /\ HitsOf(total_errors', i) >= HitsOf(total_errors, i)]_vars

C17_Witness ==
    /\ pc = "next_doc"
    /\ Len(rows) = 2
    /\ DOMAIN total_hits = {"skyttle"}
    /\ DOMAIN total_errors = {"chatterbox"}
    /\ Failed(Returned(1, 1))

\* C19: a (document, adapter) pair adds to at most one of the two counters:
\* after k documents every adapter has hits <= k and weighted errors
\* <= 2 * (k - hits).
C19_CounterBounds ==
    /\ Recording =>
          \A n \in Names : ~(n \in DOMAIN doc_hits /\ n \in DOMAIN doc_errors)
    /\ \A i \in AnalyzerIds :
          /\ HitsOf(total_hits, i) <= Len(rows)
          /\ HitsOf(total_errors, i) <= 2 * (Len(rows) - HitsOf(total_hits, i))

C19_Witness ==
    /\ Len(rows) = 2
    /\ HitsOf(total_hits, 1) = 1
    /\ HitsOf(total_errors, 1) = 2
    /\ HitsOf(total_errors, 2) = 4

\* C20: while a document is processed, every entry of Thr.outputs was
\* written by a call made on that document's text and by no call for an
\* earlier document; the cells of every row come from calls made on the
\* text of the row's document.
C20_OutputsOfThisDocumentOnly ==
    /\ pc \in {"start", "join", "score", "record"} =>
          \A n \in DOMAIN Thr_outputs :
              /\ <<CurDoc, n>> \in DOMAIN calls
              /\ Thr_outputs[n] = calls[<<CurDoc, n>>]
              /\ invocations[<<CurDoc, n>>] = <<doc_id2text[CurDoc]>>
    /\ \A j \in 1..Len(rows) : \A i \in AnalyzerIds :
          /\ <<rows[j].doc_id, ANALYZERS[i]>> \in DOMAIN invocations
          /\ invocations[<<rows[j].doc_id, ANALYZERS[i]>>] = <<rows[j].text>>
          /\ rows[j].text = doc_id2text[rows[j].doc_id]
          /\ rows[j].cells[i] = IF Failed(Returned(rows[j].doc_id, i)) THEN "Error"
                                ELSE Returned(rows[j].doc_id, i).s

C20_Witness ==
    /\ pc = "score"
    /\ doc_pos = 2
    /\ Thr_outputs["skyttle"] = PyStr("-")
    /\ calls[<<0, "skyttle">>] = PyStr("+")
    /\ rows[1].cells[1] = "+"

\* ------------------------------------------------------- the corpus file
\* The line holds white space only.
BlankLine(l) == \A k \in 1..Len(l) : l[k] \in {" ", "\t"}

\* The lines read so far that are not blank, in the order of the file.
NonBlankLines == SelectSeq(rd_lines, LAMBDA l : ~BlankLine(l))

TabsIn(l) == Cardinality({k \in 1..Len(l) : l[k] = "\t"})

\* The line without the white space before its first and after its last
\* character that is not white space.
Trimmed(l) ==
    LET inked == {k \in 1..Len(l) : l[k] \notin {" ", "\t"}}
    IN IF inked = {} THEN <<>>
       ELSE SubSeq(l, CHOOSE k \in inked : \A j \in inked : k <= j,
                      CHOOSE k \in inked : \A j \in inked : k >= j)

\* What C18 says apart from the text of the unlabeled documents: one
\* document per non-blank line, ids 0..n-1 in line order, labeled exactly
\* when the line has one tab, blank lines giving no document and no id.
LoaderCounts ==
    /\ rd_doc_id = Len(NonBlankLines)
    /\ DOMAIN rd_doc_id2doc = 0..(Len(NonBlankLines) - 1)
    /\ DOMAIN rd_doc_id2key = {k - 1 : k \in {j \in 1..Len(NonBlankLines) :
                                                TabsIn(NonBlankLines[j]) = 1}}
    /\ \A k \in 1..Len(NonBlankLines) :
          TabsIn(NonBlankLines[k]) = 1 =>
              \E i \in 1..Len(NonBlankLines[k]) :
                  /\ NonBlankLines[k][i] = "\t"
                  /\ rd_doc_id2doc[k - 1] = Trimmed(SubSeq(NonBlankLines[k], 1, i - 1))
                  /\ rd_doc_id2key[k - 1] =
                        Trimmed(SubSeq(NonBlankLines[k], i + 1, Len(NonBlankLines[k])))

\* C18 (as stated): loading never aborts on a line; every non-blank line
\* gives exactly one document, ids are 0..n-1 in line order, a line with one
\* tab gives a labeled document, a line with no tab or several tabs gives an
\* unlabeled document whose text is the whole line, and blank lines give no
\* document and take no id.
C18_WholeLineIsText ==
    /\ LoaderCounts
    /\ \A k \in 1..Len(NonBlankLines) :
          TabsIn(NonBlankLines[k]) # 1 => rd_doc_id2doc[k - 1] = NonBlankLines[k]

\* C18 (amended): as stated, but the text of the unlabeled document is the
\* whole line without its leading and trailing white space.
C18_TrimmedLineIsText ==
    /\ LoaderCounts
    /\ \A k \in 1..Len(NonBlankLines) :
          TabsIn(NonBlankLines[k]) # 1 => rd_doc_id2doc[k - 1] = Trimmed(NonBlankLines[k])

C18_Witness ==
    /\ rd_lines = << <<" ">>, <<" ", "a", "\t">> >>
    /\ rd_doc_id = 1
    /\ rd_doc_id2doc[0] = <<"a">>
    /\ rd_doc_id2key[0] = <<>>

C18_WitnessManyTabs ==
    /\ rd_lines = << <<"a", "\t", "\t">>, <<"a">> >>
    /\ rd_doc_id = 2
    /\ rd_doc_id2doc[0] = <<"a">>
    /\ DOMAIN rd_doc_id2key = {}

====
